---------------------------- MODULE Spec2Model ----------------------------
(***************************************************************************)
(* A model of ci-farm: the SSH session of one slave (slave.py), the        *)
(* lock-file protocol built on its SFTP side channel, and the build        *)
(* pipeline execute_build (builder.py).                                    *)
(*                                                                         *)
(* Text is a sequence of one-character strings.  NL stands for "\n".       *)
(* Time is counted in tenths of a second, so that time.time() formats to   *)
(* a decimal with one fractional digit.                                    *)
(***************************************************************************)
EXTENDS Integers, Sequences, FiniteSets, TLC

(***************************************************************************)
(* Bounds                                                                  *)
(***************************************************************************)
\* number of concurrent execute_build invocations
NumRuns == 2
\* lengths of config.project.pre_sync and config.project.post_build
NumPreSync == 2
NumPostBuild == 1
\* longest project name the lock operations are called with
MaxNameLen == 2
\* how far the wall clock runs on from where it started
MaxTicks == 3
\* most bytes the remote process writes to stdout and to stderr
MaxOutBytes == 3
MaxErrBytes == 2
\* bytes one recv() takes from the channel: stands for the 1024 of the code
RecvSize == 2
\* longest content of a lock file get_lock_info is called on
MaxTextLen == 4
\* slaves in the list find_available_slave scans
NumWorkers == 3
\* connect and disconnect calls made on one session object
MaxCalls == 4
\* largest timeout, in seconds, an exec_command call is given
MaxTimeout == 1
\* most bytes a process writes to a stream in the calls examined for their return
MaxLiveBytes == 1

Runs == 1..NumRuns
Slaves == {"w1", "w2"}

NL == "nl"
SP == " "
DOT == "."
Digit == <<"0", "1", "2", "3", "4", "5", "6", "7", "8", "9">>

(***************************************************************************)
(* Python string primitives used by slave.py                               *)
(***************************************************************************)
IsSpace(c) == c \in {SP, NL}

RECURSIVE LStrip(_)
LStrip(s) ==
    IF s # <<>> /\ IsSpace(Head(s)) THEN LStrip(Tail(s)) ELSE s

RECURSIVE RStrip(_)
RStrip(s) ==
    IF s # <<>> /\ IsSpace(s[Len(s)]) THEN RStrip(SubSeq(s, 1, Len(s) - 1)) ELSE s

\* str.strip()
Strip(s) == RStrip(LStrip(s))

\* index of the first c in s, 0 when there is none
RECURSIVE IndexOf(_, _, _)
IndexOf(s, c, i) ==
    IF i > Len(s) THEN 0
    ELSE IF s[i] = c THEN i
    ELSE IndexOf(s, c, i + 1)

\* str.split("\n"): always at least one field
RECURSIVE SplitNL(_)
SplitNL(s) ==
    LET i == IndexOf(s, NL, 1)
    IN  IF i = 0 THEN <<s>>
        ELSE <<SubSeq(s, 1, i - 1)>> \o SplitNL(SubSeq(s, i + 1, Len(s)))

\* decimal digits of a natural number
RECURSIVE Digits(_)
Digits(n) ==
    IF n < 10 THEN <<Digit[n + 1]>>
    ELSE Digits(n \div 10) \o <<Digit[(n % 10) + 1]>>

\* str(float) of a time given in tenths of a second: "12.3", "4.0"
FormatFloat(t) == Digits(t \div 10) \o <<DOT>> \o Digits(t % 10)

DigitValue(c) == (CHOOSE i \in 1..10 : Digit[i] = c) - 1
IsDigit(c) == \E i \in 1..10 : Digit[i] = c

RECURSIVE DigitsValue(_, _)
DigitsValue(s, acc) ==
    IF s = <<>> THEN acc
    ELSE DigitsValue(Tail(s), acc * 10 + DigitValue(Head(s)))

\* float(s): surrounding white space is ignored; digits with at most one
\* point and at least one digit parse, anything else is a ValueError.
\* The value is in tenths; digits after the first fractional one are below
\* the clock's resolution.
ParseFloat(s) ==
    LET t == Strip(s)
        p == IndexOf(t, DOT, 1)
        ip == IF p = 0 THEN t ELSE SubSeq(t, 1, p - 1)
        fp == IF p = 0 THEN <<>> ELSE SubSeq(t, p + 1, Len(t))
        wellFormed ==
            /\ Len(ip) + Len(fp) > 0
            /\ \A i \in 1..Len(ip) : IsDigit(ip[i])
            /\ \A i \in 1..Len(fp) : IsDigit(fp[i])
    IN  IF wellFormed
        THEN [ok |-> TRUE,
              val |-> DigitsValue(ip, 0) * 10
                      + (IF fp = <<>> THEN 0 ELSE DigitValue(fp[1]))]
        ELSE [ok |-> FALSE, val |-> 0]

(***************************************************************************)
(* The lock file <build_dir>/.ci-farm.lock of one slave                    *)
(***************************************************************************)
\* a file as the SFTP server keeps it: ino names the inode behind the path
NoFile == [exists |-> FALSE, content |-> <<>>, ino |-> 0]
FileOf(text, ino) == [exists |-> TRUE, content |-> text, ino |-> ino]

\* acquire_lock: f"{project_name}\n{time.time()}\n"
LockContent(project, now) == project \o <<NL>> \o FormatFloat(now) \o <<NL>>

\* is_busy: sftp.stat succeeds
IsBusyOn(file) == file.exists

\* get_lock_info: "none" is the None result, "error" the ValueError of float()
GetLockInfo(file) ==
    IF ~file.exists THEN [kind |-> "none", project |-> <<>>, ts |-> 0]
    ELSE LET lines == SplitNL(Strip(file.content))
         IN  IF Len(lines) >= 2
             THEN LET f == ParseFloat(lines[2])
                  IN  IF f.ok
                      THEN [kind |-> "info", project |-> lines[1], ts |-> f.val]
                      ELSE [kind |-> "error", project |-> <<>>, ts |-> 0]
             ELSE [kind |-> "none", project |-> <<>>, ts |-> 0]


(***************************************************************************)
(* detect_build_command                                                    *)
(***************************************************************************)
\* the marker table, in the order the dict literal lists it
BUILD_MARKERS == <<
    [marker |-> "Makefile",       command |-> "make"],
    [marker |-> "CMakeLists.txt", command |-> "cmake -B build && cmake --build build"],
    [marker |-> "package.json",   command |-> "npm install && npm run build"],
    [marker |-> "Cargo.toml",     command |-> "cargo build --release"],
    [marker |-> "go.mod",         command |-> "go build ./..."],
    [marker |-> "pyproject.toml", command |-> "pip install -e . && python -m pytest"],
    [marker |-> "setup.py",       command |-> "pip install -e . && python -m pytest"],
    [marker |-> ".ci/build.sh",   command |-> "bash .ci/build.sh"],
    [marker |-> "build.sh",       command |-> "bash build.sh"] >>

Markers == {BUILD_MARKERS[i].marker : i \in DOMAIN BUILD_MARKERS}

\* the for loop from entry i on; "none" is None
RECURSIVE DetectFrom(_, _)
DetectFrom(files, i) ==
    IF i > Len(BUILD_MARKERS) THEN "none"
    ELSE IF BUILD_MARKERS[i].marker \in files
         THEN BUILD_MARKERS[i].command
         ELSE DetectFrom(files, i + 1)

\* a faulty variant of detect_build_command: the last marker present wins
RECURSIVE DetectBack(_, _)
DetectBack(files, i) ==
    IF i < 1 THEN "none"
    ELSE IF BUILD_MARKERS[i].marker \in files
         THEN BUILD_MARKERS[i].command
         ELSE DetectBack(files, i - 1)

DetectLast(files) == DetectBack(files, Len(BUILD_MARKERS))

\* files: the markers for which (project_path / marker).exists()
detect_build_command(files) == DetectFrom(files, 1)


(***************************************************************************)
(* State                                                                   *)
(***************************************************************************)
VARIABLES
    clock,      \* time.time(), in tenths of a second
    buildDir,   \* buildDir[w]: <build_dir> exists on slave w
    lock,       \* lock[w]: the lock file of slave w, with the inode behind it
    pc,         \* pc[r]: the statement run r of execute_build is at
    slave,      \* slave[r]: name of the slave the run resolved, "none" if none
    command,    \* command[r]: the build command the run settled on
    client,     \* client[r]: SlaveConnection.client ("none" is None)
    sftp,       \* sftp[r]: SlaveConnection.sftp is an open SFTP client
    hnd,        \* hnd[r]: inode of the lock file acquire_lock holds open, 0 if none
    acqTime,    \* acqTime[r]: the time.time() acquire_lock put in lock_content
    preIdx,     \* preIdx[r]: pre_sync commands that have exited zero
    postIdx,    \* postIdx[r]: post_build commands that have returned
    pending,    \* pending[r]: how the body of the with block ended
    result,     \* result[r]: value execute_build returned (when pc[r] = "done")
    hist        \* hist[r]: calls the run has made so far

\* one SlaveConnection calling the lock operations one after another
VARIABLES
    api,        \* the acquire_lock call in progress on the session, if any
    last        \* the last lock operation that completed on the session

\* one call of SlaveConnection.exec_command and the remote process it runs
VARIABLES
    fullOut,        \* every byte the remote process writes to stdout
    fullErr,        \* every byte the remote process writes to stderr
    procOut,        \* bytes the process has still to write to stdout
    procErr,        \* bytes the process has still to write to stderr
    exited,         \* exit_status_ready(): the exit status has arrived
    procStatus,     \* the exit status the process ended with
    chanOut,        \* stdout bytes the channel holds, not yet recv()ed
    chanErr,        \* stderr bytes the channel holds, not yet recv_stderr()ed
    xpc,            \* the statement exec_command is at
    stdout_buffer,
    stderr_buffer,
    outCalls,       \* the lines on_stdout was called with, in order
    errCalls,       \* the lines on_stderr was called with, in order
    exit_status,    \* the value exec_command returns
    timeout,        \* the timeout argument of exec_command, in seconds
    iterRead        \* this iteration of the while loop read from a stream

\* one call of detect_build_command
VARIABLES
    present,        \* the marker files that exist in the project root
    detected        \* what detect_build_command returned, "unset" before

\* one call of get_lock_info on the lock file of a slave
VARIABLES
    info            \* what get_lock_info returned or raised, "unset" before

\* one call of find_available_slave
VARIABLES
    farm,           \* farm[i]: the i-th slave of the list, as a probe finds it
    scan            \* where the for loop is, what it probed, what it returned

\* SlaveConnection objects on which connect and disconnect are called
VARIABLES
    sess            \* sess[s]: the calls made on session s so far

\* one call of SlaveConnection.connect, up to client.connect(**connect_kwargs)
VARIABLES
    config,         \* the SlaveConfig of the session
    keyOnDisk,      \* Path(config.key).expanduser().exists()
    connect_kwargs  \* the arguments client.connect is called with

\* orchestrators that stop while they hold a lock, and ci-farm unlock
VARIABLES
    stale           \* slaves on which an orchestrator stopped between its
                    \* acquire_lock and release_lock, not unlocked since

\* one call of monitor._collect_all
VARIABLES
    slaves,         \* the list of slaves, by name
    task,           \* task[i]: the _collect_single task submitted for slaves[i]
    yielded,        \* the futures as_completed has yielded so far
    results,        \* the list the results are appended to
    collected,      \* what _collect_all returned, if it has
    cpc             \* the statement _collect_all is at

\* the sessions find_available_slave opens, one check_slave_available at a time
VARIABLES
    hosts,          \* hosts[i]: how connect() to the i-th slave ends, its lock file
    walk,           \* where find_available_slave is and what it returned
    sessions        \* the slaves to which a transport opened by the scan is open

slaveVars == <<clock, buildDir, lock>>
runVars == <<pc, slave, command, client, sftp, hnd, acqTime, preIdx, postIdx,
             pending, result, hist>>
pipeVars == <<slaveVars, runVars>>
lockVars == <<api, last>>
execVars == <<fullOut, fullErr, procOut, procErr, exited, procStatus,
              chanOut, chanErr, xpc, stdout_buffer, stderr_buffer,
              outCalls, errCalls, exit_status, timeout, iterRead>>

\* what the actions of one specification leave alone
detectVars == <<present, detected>>
findVars == <<farm, scan>>
credVars == <<config, keyOnDisk, connect_kwargs>>
\* the variables of the specifications further down
collectVars == <<slaves, task, yielded, results, collected, cpc>>
probeVars == <<hosts, walk, sessions>>
laterVars == <<credVars, stale, collectVars, probeVars>>
offPipe == <<lockVars, execVars, detectVars, info, findVars, sess, laterVars>>
offLock == <<runVars, execVars, detectVars, info, findVars, sess, laterVars>>
offExec == <<pipeVars, lockVars, detectVars, info, findVars, sess, laterVars>>
offDetect == <<pipeVars, lockVars, execVars, info, findVars, sess, laterVars>>
offInfo == <<pipeVars, lockVars, execVars, detectVars, findVars, sess, laterVars>>
offFind == <<pipeVars, lockVars, execVars, detectVars, info, sess, laterVars>>
offSess == <<slaveVars, pc, slave, command, hnd, acqTime, preIdx, postIdx,
             pending, result, hist, lockVars, execVars, detectVars, info,
             findVars, laterVars>>

\* exit statuses a remote build command returns
ExitCodes == {0, 2}

\* project_path.name of each run: runs 1 and 2 build different projects
ProjectNames == <<<<"a">>, <<"b", "b">>>>
ProjectOf(r) == ProjectNames[((r - 1) % Len(ProjectNames)) + 1]

NoPending == [kind |-> "none", code |-> 0]
Return(code) == [kind |-> "return", code |-> code]
Raise == [kind |-> "raise", code |-> 0]

NoCalls == [acquire |-> 0, acquired |-> FALSE, sawBusy |-> FALSE,
            pre |-> 0, preFailed |-> 0, sync |-> 0,
            syncFailed |-> FALSE, build |-> 0, buildExit |-> 0,
            buildRaised |-> FALSE, post |-> 0, postFailed |-> FALSE,
            postRaised |-> FALSE, release |-> 0, releaseRaised |-> FALSE]

\* slaves nothing was built on yet
FreshSlaves ==
    /\ buildDir = [w \in Slaves |-> FALSE]
    /\ lock = [w \in Slaves |-> NoFile]

\* no execute_build was started
RunsIdle ==
    /\ pc = [r \in Runs |-> "idle"]
    /\ slave = [r \in Runs |-> "none"]
    /\ command = [r \in Runs |-> "unset"]
    /\ client = [r \in Runs |-> "none"]
    /\ sftp = [r \in Runs |-> FALSE]
    /\ hnd = [r \in Runs |-> 0]
    /\ acqTime = [r \in Runs |-> 0]
    /\ preIdx = [r \in Runs |-> 0]
    /\ postIdx = [r \in Runs |-> 0]
    /\ pending = [r \in Runs |-> NoPending]
    /\ result = [r \in Runs |-> 0]
    /\ hist = [r \in Runs |-> NoCalls]

PipeInit == clock = 0 /\ FreshSlaves /\ RunsIdle

\* no call of detect_build_command, get_lock_info or find_available_slave
\* was made, and no session object is in use
NoInfo == [kind |-> "unset", project |-> <<>>, ts |-> 0]
ScanOff == [pc |-> "off", i |-> 0, probed |-> <<>>, found |-> 0]
NewSession == [calls |-> 0, last |-> "new", raised |-> FALSE]

\* Python's None, and a key that a dict does not hold
PyNone == "None"
Absent == "absent"
NoConfig == [host |-> Absent, port |-> 0, user |-> Absent,
             key |-> PyNone, password |-> PyNone]
NoKwargs == [hostname |-> Absent, port |-> 0, username |-> Absent, timeout |-> 0,
             key_filename |-> Absent, password |-> Absent]
CredParked == config = NoConfig /\ keyOnDisk = FALSE /\ connect_kwargs = NoKwargs
StaleParked == stale = {}
NotReturned == [done |-> FALSE, value |-> <<>>]
CollectParked ==
    /\ slaves = <<>> /\ task = <<>> /\ yielded = {} /\ results = <<>>
    /\ collected = NotReturned /\ cpc = "off"
WalkOff == [pc |-> "off", i |-> 0, outcome |-> "none", found |-> 0]
ProbeParked == hosts = <<>> /\ walk = WalkOff /\ sessions = {}
LaterParked == CredParked /\ StaleParked /\ CollectParked /\ ProbeParked

DetectParked == present = {} /\ detected = "unset"
InfoParked == info = NoInfo
FindParked == farm = <<>> /\ scan = ScanOff
SessParked == sess = [s \in Runs |-> NewSession]



(***************************************************************************)
(* SlaveConnection: the lock operations on the slave's file system         *)
(***************************************************************************)
\* sftp.file(lock_path, "w"): creates the file, or truncates the one there
OpenForWrite(file, newIno) ==
    IF file.exists THEN FileOf(<<>>, file.ino) ELSE FileOf(<<>>, newIno)

\* f.write(lock_content) and close: the bytes go to offset 0 of the inode
\* the handle was opened on; bytes of the inode beyond them stay
WriteAtStart(old, text) ==
    IF Len(text) >= Len(old) THEN text
    ELSE text \o SubSeq(old, Len(text) + 1, Len(old))

WriteThrough(file, ino, text) ==
    IF file.exists /\ file.ino = ino
    THEN FileOf(WriteAtStart(file.content, text), ino)
    ELSE file

\* sftp.remove(lock_path); FileNotFoundError is swallowed
RemoveFile(file) == NoFile

(***************************************************************************)
(* execute_build, one action per statement that touches shared state       *)
(***************************************************************************)
\* execute_build returns code: its frame, and the tally kept of it, are gone
Finish(r, code) ==
    /\ pc' = [pc EXCEPT ![r] = "done"]
    /\ result' = [result EXCEPT ![r] = code]
    /\ slave' = [slave EXCEPT ![r] = "none"]
    /\ command' = [command EXCEPT ![r] = "unset"]
    /\ hnd' = [hnd EXCEPT ![r] = 0]
    /\ acqTime' = [acqTime EXCEPT ![r] = 0]
    /\ preIdx' = [preIdx EXCEPT ![r] = 0]
    /\ postIdx' = [postIdx EXCEPT ![r] = 0]
    /\ pending' = [pending EXCEPT ![r] = NoPending]
    /\ hist' = [hist EXCEPT ![r] = NoCalls]

\* the body of the with block ends: control goes to __exit__
Leave(r, how) ==
    /\ pc' = [pc EXCEPT ![r] = "disconnect"]
    /\ pending' = [pending EXCEPT ![r] = how]

\* a faulty variant of ToFinally: release_lock after the body instead of in finally
ReleaseOnReturnOnly(r, how) ==
    IF how.kind = "raise"
    THEN Leave(r, how)
    ELSE /\ pc' = [pc EXCEPT ![r] = "release"]
         /\ pending' = [pending EXCEPT ![r] = how]

\* the body of the try block ends: control goes to the finally clause
ToFinally(r, how) ==
    /\ pc' = [pc EXCEPT ![r] = "release"]
    /\ pending' = [pending EXCEPT ![r] = how]

AfterPreSync(i) == IF i < NumPreSync THEN "presync" ELSE "sync"

\* slave names a run may be started with; the slaves are alike, so the
\* first run is taken to name w1
SlaveNames(r) == IF r = 1 THEN {"w1"} ELSE Slaves

\* build_command of the call and of the project configuration, None or given
CommandArgs == {"none", "make"}

\* marker files in the project root of a run
ProjectRoots == {{}, {"Makefile"}, {"build.sh", "Makefile"}}

\* command = build_command or config.project.build_command, else detected
ChooseCommand(given, configured, files) ==
    IF given # "none" THEN given
    ELSE IF configured # "none" THEN configured
    ELSE detect_build_command(files)

\* what the choice comes to over the calls, configurations and project roots
ChosenCommands ==
    {ChooseCommand(given, configured, files) :
        given \in CommandArgs, configured \in CommandArgs, files \in ProjectRoots}

\* config.get_slave and the choice of the build command
Resolve(r) ==
    /\ UNCHANGED offPipe
    /\ pc[r] = "idle"
    /\ \E w \in SlaveNames(r) \cup {"none"} :
        IF w = "none"
        THEN Finish(r, 1)
        ELSE /\ slave' = [slave EXCEPT ![r] = w]
             /\ \E chosen \in ChosenCommands :
                    command' = [command EXCEPT ![r] = chosen]
             /\ pc' = [pc EXCEPT ![r] = "command"]
             /\ UNCHANGED <<result, hnd, acqTime, preIdx, postIdx, pending, hist>>
    /\ UNCHANGED <<clock, buildDir, lock, client, sftp>>

\* a faulty variant of CheckCommand: the session is opened before the command is looked at
CheckCommandLate(r) ==
    /\ UNCHANGED offPipe
    /\ pc[r] = "command"
    /\ IF command[r] = "none"
       THEN /\ client' = [client EXCEPT ![r] = "open"]
            /\ sftp' = [sftp EXCEPT ![r] = TRUE]
            /\ Finish(r, 1)
       ELSE /\ pc' = [pc EXCEPT ![r] = "connect"]
            /\ UNCHANGED <<result, slave, command, hnd, acqTime, preIdx,
                           postIdx, pending, hist, client, sftp>>
    /\ UNCHANGED <<clock, buildDir, lock>>

\* if not command: return 1
CheckCommand(r) ==
    /\ UNCHANGED offPipe
    /\ pc[r] = "command"
    /\ IF command[r] = "none"
       THEN Finish(r, 1)
       ELSE /\ pc' = [pc EXCEPT ![r] = "connect"]
            /\ UNCHANGED <<result, slave, command, hnd, acqTime, preIdx,
                           postIdx, pending, hist>>
    /\ UNCHANGED <<clock, buildDir, lock, client, sftp>>

\* a faulty variant of Connect: the session is opened inside the try
\* block, so a failed connect goes through the finally clause
ConnectInsideTry(r) ==
    /\ UNCHANGED offPipe
    /\ pc[r] = "connect"
    /\ \E outcome \in {"ok", "no_transport", "no_sftp"} :
        /\ client' = [client EXCEPT ![r] =
                        IF outcome = "no_transport" THEN "unconnected" ELSE "open"]
        /\ sftp' = [sftp EXCEPT ![r] = (outcome = "ok")]
        /\ IF outcome = "ok"
           THEN /\ pc' = [pc EXCEPT ![r] = "is_busy"]
                /\ UNCHANGED pending
           ELSE ToFinally(r, Raise)
    /\ UNCHANGED <<clock, buildDir, lock, result, slave, command, hnd, acqTime,
                   preIdx, postIdx, hist>>

\* SlaveConnection.__enter__ -> connect
Connect(r) ==
    /\ UNCHANGED offPipe
    /\ pc[r] = "connect"
    /\ \E outcome \in {"ok", "no_transport", "no_sftp"} :
        /\ client' = [client EXCEPT ![r] =
                        IF outcome = "no_transport" THEN "unconnected" ELSE "open"]
        /\ sftp' = [sftp EXCEPT ![r] = (outcome = "ok")]
        /\ IF outcome = "ok"
           THEN /\ pc' = [pc EXCEPT ![r] = "is_busy"]
                /\ UNCHANGED <<result, slave, command, hnd, acqTime, preIdx, postIdx,
                               pending, hist>>
           ELSE Finish(r, 1)
    /\ UNCHANGED <<clock, buildDir, lock>>

\* a faulty variant of IsBusy: a lock file on any slave makes the slave busy
IsBusyAnywhere(r) ==
    /\ UNCHANGED offPipe
    /\ pc[r] = "is_busy"
    /\ \/ /\ \E w \in Slaves : IsBusyOn(lock[w])
          /\ pc' = [pc EXCEPT ![r] = "lock_info"]
          /\ hist' = [hist EXCEPT ![r].sawBusy = TRUE]
          /\ UNCHANGED pending
       \/ /\ \A w \in Slaves : ~IsBusyOn(lock[w])
          /\ pc' = [pc EXCEPT ![r] = "acquire"]
          /\ UNCHANGED <<hist, pending>>
       \/ /\ Leave(r, Raise)
          /\ UNCHANGED hist
    /\ UNCHANGED <<clock, buildDir, lock, slave, command, client, sftp, hnd, acqTime,
                   preIdx, postIdx, result>>

\* conn.is_busy()
IsBusy(r) ==
    /\ UNCHANGED offPipe
    /\ pc[r] = "is_busy"
    /\ \/ /\ IsBusyOn(lock[slave[r]])
          /\ pc' = [pc EXCEPT ![r] = "lock_info"]
          /\ hist' = [hist EXCEPT ![r].sawBusy = TRUE]
          /\ UNCHANGED pending
       \/ /\ ~IsBusyOn(lock[slave[r]])
          /\ pc' = [pc EXCEPT ![r] = "acquire"]
          /\ UNCHANGED <<hist, pending>>
       \/ /\ Leave(r, Raise)
          /\ UNCHANGED hist
    /\ UNCHANGED <<clock, buildDir, lock, slave, command, client, sftp, hnd, acqTime,
                   preIdx, postIdx, result>>

\* a faulty variant of BusyReturn: the busy branch reports and falls through
BusyIgnored(r) ==
    /\ UNCHANGED offPipe
    /\ pc[r] = "lock_info"
    /\ pc' = [pc EXCEPT ![r] = "acquire"]
    /\ UNCHANGED <<clock, buildDir, lock, slave, command, client, sftp, hnd, acqTime,
                   preIdx, postIdx, pending, result, hist>>

\* a faulty variant of BusyReturn: the busy branch removes the lock file it found
BusyBreaksLock(r) ==
    /\ UNCHANGED offPipe
    /\ pc[r] = "lock_info"
    /\ lock' = [lock EXCEPT ![slave[r]] = RemoveFile(@)]
    /\ Leave(r, Return(1))
    /\ UNCHANGED <<clock, buildDir, slave, command, client, sftp, hnd, acqTime,
                   preIdx, postIdx, result, hist>>

\* conn.get_lock_info() and return 1
BusyReturn(r) ==
    /\ UNCHANGED offPipe
    /\ pc[r] = "lock_info"
    /\ \/ /\ GetLockInfo(lock[slave[r]]).kind # "error"
          /\ Leave(r, Return(1))
       \/ Leave(r, Raise)
    /\ UNCHANGED <<clock, buildDir, lock, slave, command, client, sftp, hnd, acqTime,
                   preIdx, postIdx, result, hist>>


\* conn.acquire_lock, first half: _ensure_dir, time.time(), sftp.file(.., "w")
\* a faulty variant of AcquireOpenOk: exclusive create, refused when the file exists
AcquireOpenExclusive(r) ==
    /\ UNCHANGED offPipe
    /\ pc[r] = "acquire"
    /\ ~lock[slave[r]].exists
    /\ buildDir' = [buildDir EXCEPT ![slave[r]] = TRUE]
    /\ lock' = [lock EXCEPT ![slave[r]] = FileOf(<<>>, r)]
    /\ hnd' = [hnd EXCEPT ![r] = r]
    /\ acqTime' = [acqTime EXCEPT ![r] = clock]
    /\ hist' = [hist EXCEPT ![r].acquire = @ + 1]
    /\ pc' = [pc EXCEPT ![r] = "acquire_write"]
    /\ UNCHANGED <<clock, slave, command, client, sftp, preIdx, postIdx, result, pending>>

\* the file is opened whether or not a lock file is already there
AcquireOpenOk(r) ==
    /\ UNCHANGED offPipe
    /\ pc[r] = "acquire"
    /\ LET w == slave[r]
           opened == OpenForWrite(lock[w], r)
       IN  /\ buildDir' = [buildDir EXCEPT ![w] = TRUE]
           /\ lock' = [lock EXCEPT ![w] = opened]
           /\ hnd' = [hnd EXCEPT ![r] = opened.ino]
    /\ acqTime' = [acqTime EXCEPT ![r] = clock]
    /\ hist' = [hist EXCEPT ![r].acquire = @ + 1]
    /\ pc' = [pc EXCEPT ![r] = "acquire_write"]
    /\ UNCHANGED <<clock, slave, command, client, sftp, preIdx, postIdx, result, pending>>

\* an SFTP or SSH failure before anything was created on the slave
AcquireOpenFail(r) ==
    /\ UNCHANGED offPipe
    /\ pc[r] = "acquire"
    /\ hist' = [hist EXCEPT ![r].acquire = @ + 1]
    /\ Leave(r, Raise)
    /\ UNCHANGED <<clock, buildDir, lock, hnd, acqTime, slave, command, client, sftp,
                   preIdx, postIdx, result>>

AcquireOpen(r) == AcquireOpenOk(r) \/ AcquireOpenFail(r)

\* conn.acquire_lock, second half: f.write(lock_content) and close
AcquireWrite(r) ==
    /\ UNCHANGED offPipe
    /\ pc[r] = "acquire_write"
    /\ LET w == slave[r]
       IN  \/ /\ lock' = [lock EXCEPT ![w] =
                    WriteThrough(lock[w], hnd[r],
                                 LockContent(ProjectOf(r), acqTime[r]))]
              /\ hist' = [hist EXCEPT ![r].acquired = TRUE]
              /\ pc' = [pc EXCEPT ![r] = AfterPreSync(0)]
              /\ UNCHANGED pending
           \/ /\ Leave(r, Raise)
              /\ UNCHANGED <<lock, hist>>
    /\ hnd' = [hnd EXCEPT ![r] = 0]
    /\ UNCHANGED <<clock, buildDir, slave, command, client, sftp, acqTime,
                   preIdx, postIdx, result>>

\* a faulty variant of PreSync: check=False, a failed hook is run past
PreSyncUnchecked(r) ==
    /\ UNCHANGED offPipe
    /\ pc[r] = "presync"
    /\ \E failed \in BOOLEAN :
        hist' = [hist EXCEPT ![r].pre = @ + 1,
                             ![r].preFailed =
                                IF failed /\ @ = 0 THEN preIdx[r] + 1 ELSE @]
    /\ preIdx' = [preIdx EXCEPT ![r] = @ + 1]
    /\ pc' = [pc EXCEPT ![r] = AfterPreSync(preIdx[r] + 1)]
    /\ UNCHANGED <<clock, buildDir, lock, slave, command, client, sftp, hnd, acqTime,
                   postIdx, result, pending>>

\* one subprocess.run(pre_cmd, shell=True, check=True)
PreSync(r) ==
    /\ UNCHANGED offPipe
    /\ pc[r] = "presync"
    /\ \/ /\ preIdx' = [preIdx EXCEPT ![r] = @ + 1]
          /\ hist' = [hist EXCEPT ![r].pre = @ + 1]
          /\ pc' = [pc EXCEPT ![r] = AfterPreSync(preIdx[r] + 1)]
          /\ UNCHANGED pending
       \/ /\ hist' = [hist EXCEPT ![r].pre = @ + 1,
                                  ![r].preFailed = preIdx[r] + 1]
          /\ ToFinally(r, Raise)
          /\ UNCHANGED preIdx
    /\ UNCHANGED <<clock, buildDir, lock, slave, command, client, sftp, hnd, acqTime,
                   postIdx, result>>

\* a faulty variant of Sync: the return code of rsync is not looked at
SyncUnchecked(r) ==
    /\ UNCHANGED offPipe
    /\ pc[r] = "sync"
    /\ \E failed \in BOOLEAN :
        hist' = [hist EXCEPT ![r].sync = @ + 1, ![r].syncFailed = failed]
    /\ pc' = [pc EXCEPT ![r] = "build"]
    /\ UNCHANGED <<clock, buildDir, lock, slave, command, client, sftp, hnd, acqTime,
                   preIdx, postIdx, result, pending>>

\* sync_project: rsync exits zero, or BuildError
Sync(r) ==
    /\ UNCHANGED offPipe
    /\ pc[r] = "sync"
    /\ \/ /\ hist' = [hist EXCEPT ![r].sync = @ + 1]
          /\ pc' = [pc EXCEPT ![r] = "build"]
          /\ UNCHANGED pending
       \/ /\ hist' = [hist EXCEPT ![r].sync = @ + 1, ![r].syncFailed = TRUE]
          /\ ToFinally(r, Raise)
    /\ UNCHANGED <<clock, buildDir, lock, slave, command, client, sftp, hnd, acqTime,
                   preIdx, postIdx, result>>

\* a faulty variant of Build: a failed build is reported as 1, whatever its status
BuildFlattened(r) ==
    /\ UNCHANGED offPipe
    /\ pc[r] = "build"
    /\ \/ \E code \in ExitCodes :
            /\ hist' = [hist EXCEPT ![r].build = @ + 1, ![r].buildExit = code]
            /\ IF code = 0 /\ NumPostBuild > 0
               THEN /\ pc' = [pc EXCEPT ![r] = "postbuild"]
                    /\ UNCHANGED pending
               ELSE ToFinally(r, Return(IF code = 0 THEN 0 ELSE 1))
       \/ /\ hist' = [hist EXCEPT ![r].build = @ + 1, ![r].buildRaised = TRUE]
          /\ ToFinally(r, Raise)
    /\ UNCHANGED <<clock, buildDir, lock, slave, command, client, sftp, hnd, acqTime,
                   preIdx, postIdx, result>>

\* a faulty variant of Build: the post-build hooks run after a failed build too
BuildThenHooks(r) ==
    /\ UNCHANGED offPipe
    /\ pc[r] = "build"
    /\ \/ \E code \in ExitCodes :
            /\ hist' = [hist EXCEPT ![r].build = @ + 1, ![r].buildExit = code]
            /\ IF NumPostBuild > 0
               THEN /\ pc' = [pc EXCEPT ![r] = "postbuild"]
                    /\ UNCHANGED pending
               ELSE ToFinally(r, Return(code))
       \/ /\ hist' = [hist EXCEPT ![r].build = @ + 1, ![r].buildRaised = TRUE]
          /\ ToFinally(r, Raise)
    /\ UNCHANGED <<clock, buildDir, lock, slave, command, client, sftp, hnd, acqTime,
                   preIdx, postIdx, result>>

\* run_build: exec_command returns the exit status, or raises
Build(r) ==
    /\ UNCHANGED offPipe
    /\ pc[r] = "build"
    /\ \/ \E code \in ExitCodes :
            /\ hist' = [hist EXCEPT ![r].build = @ + 1, ![r].buildExit = code]
            /\ IF code = 0 /\ NumPostBuild > 0
               THEN /\ pc' = [pc EXCEPT ![r] = "postbuild"]
                    /\ UNCHANGED pending
               ELSE ToFinally(r, Return(code))
       \/ /\ hist' = [hist EXCEPT ![r].build = @ + 1, ![r].buildRaised = TRUE]
          /\ ToFinally(r, Raise)
    /\ UNCHANGED <<clock, buildDir, lock, slave, command, client, sftp, hnd, acqTime,
                   preIdx, postIdx, result>>

\* one conn.exec_command(post_cmd, ..): its exit status is dropped
PostBuild(r) ==
    /\ UNCHANGED offPipe
    /\ pc[r] = "postbuild"
    /\ \/ \E hookFailed \in BOOLEAN :
            /\ postIdx' = [postIdx EXCEPT ![r] = @ + 1]
            /\ hist' = [hist EXCEPT ![r].post = @ + 1,
                                    ![r].postFailed = @ \/ hookFailed]
            /\ IF postIdx[r] + 1 < NumPostBuild
               THEN UNCHANGED <<pc, pending>>
               ELSE ToFinally(r, Return(hist[r].buildExit))
       \/ /\ hist' = [hist EXCEPT ![r].post = @ + 1, ![r].postRaised = TRUE]
          /\ ToFinally(r, Raise)
          /\ UNCHANGED postIdx
    /\ UNCHANGED <<clock, buildDir, lock, slave, command, client, sftp, hnd, acqTime,
                   preIdx, result>>

\* a faulty variant of ReleaseLock: an error of sftp.remove is swallowed
ReleaseLockSwallowed(r) ==
    /\ UNCHANGED offPipe
    /\ pc[r] = "release"
    /\ pc' = [pc EXCEPT ![r] = "disconnect"]
    /\ \/ /\ lock' = [lock EXCEPT ![slave[r]] = RemoveFile(@)]
          /\ hist' = [hist EXCEPT ![r].release = @ + 1]
       \/ /\ hist' = [hist EXCEPT ![r].release = @ + 1,
                                  ![r].releaseRaised = TRUE]
          /\ UNCHANGED lock
    /\ UNCHANGED <<clock, buildDir, slave, command, client, sftp, hnd, acqTime,
                   preIdx, postIdx, pending, result>>

\* finally: conn.release_lock()
ReleaseLock(r) ==
    /\ UNCHANGED offPipe
    /\ pc[r] = "release"
    /\ pc' = [pc EXCEPT ![r] = "disconnect"]
    /\ \/ /\ lock' = [lock EXCEPT ![slave[r]] = RemoveFile(@)]
          /\ hist' = [hist EXCEPT ![r].release = @ + 1]
          /\ UNCHANGED pending
       \/ /\ pending' = [pending EXCEPT ![r] = Raise]
          /\ hist' = [hist EXCEPT ![r].release = @ + 1,
                                  ![r].releaseRaised = TRUE]
          /\ UNCHANGED lock
    /\ UNCHANGED <<clock, buildDir, slave, command, client, sftp, hnd, acqTime,
                   preIdx, postIdx, result>>

\* a faulty variant of Disconnect: every non-zero result is turned into 1
DisconnectFlattened(r) ==
    /\ UNCHANGED offPipe
    /\ pc[r] = "disconnect"
    /\ sftp' = [sftp EXCEPT ![r] = FALSE]
    /\ client' = [client EXCEPT ![r] = "none"]
    /\ Finish(r, IF pending[r] = Return(0) THEN 0 ELSE 1)
    /\ UNCHANGED <<clock, buildDir, lock>>

\* a faulty variant of Disconnect: no except clause, an error leaves execute_build
DisconnectPassing(r) ==
    /\ UNCHANGED offPipe
    /\ pc[r] = "disconnect"
    /\ sftp' = [sftp EXCEPT ![r] = FALSE]
    /\ client' = [client EXCEPT ![r] = "none"]
    /\ IF pending[r].kind = "return"
       THEN Finish(r, pending[r].code)
       ELSE /\ pc' = [pc EXCEPT ![r] = "raised"]
            /\ UNCHANGED <<result, slave, command, hnd, acqTime, preIdx,
                           postIdx, pending, hist>>
    /\ UNCHANGED <<clock, buildDir, lock>>

\* SlaveConnection.__exit__ -> disconnect, then the return or the
\* except Exception clause of execute_build
Disconnect(r) ==
    /\ UNCHANGED offPipe
    /\ pc[r] = "disconnect"
    /\ sftp' = [sftp EXCEPT ![r] = FALSE]
    /\ client' = [client EXCEPT ![r] = "none"]
    /\ Finish(r, IF pending[r].kind = "return" THEN pending[r].code ELSE 1)
    /\ UNCHANGED <<clock, buildDir, lock>>

PipeNext ==
    \E r \in Runs :
        \/ Resolve(r)
        \/ CheckCommand(r)
        \/ Connect(r)
        \/ IsBusy(r)
        \/ BusyReturn(r)
        \/ AcquireOpen(r)
        \/ AcquireWrite(r)
        \/ PreSync(r)
        \/ Sync(r)
        \/ Build(r)
        \/ PostBuild(r)
        \/ ReleaseLock(r)
        \/ Disconnect(r)


(***************************************************************************)
(* The lock operations of one SlaveConnection, called one after another    *)
(***************************************************************************)
\* project names: every text of at most MaxNameLen characters
NameChars == {"a", SP}
Names == UNION {[1..n -> NameChars] : n \in 0..MaxNameLen}

\* values of time.time() a session may start at
ClockStarts == {0, 98}

ApiIdle == [pc |-> "idle", project |-> <<>>, start |-> 0, time |-> 0, hnd |-> 0]
NoOp == [op |-> "none", project |-> <<>>, start |-> 0, finish |-> 0]

LockParked == api = ApiIdle /\ last = NoOp

\* the session is the one of slave w1
ApiSlave == "w1"
ApiIno == 1

\* the wall clock advances on its own
Tick ==
    /\ UNCHANGED offLock
    /\ \E base \in ClockStarts : base <= clock /\ clock < base + MaxTicks
    /\ clock' = clock + 1
    /\ UNCHANGED <<buildDir, lock, api, last>>

\* acquire_lock(project) is entered: _ensure_dir
ApiAcquireCall ==
    /\ UNCHANGED offLock
    /\ api.pc = "idle"
    /\ \E p \in Names :
        api' = [pc |-> "open", project |-> p, start |-> clock,
                time |-> 0, hnd |-> 0]
    /\ buildDir' = [buildDir EXCEPT ![ApiSlave] = TRUE]
    /\ UNCHANGED <<clock, lock, last>>

\* time.time() is read into lock_content and the file is opened
ApiAcquireOpen ==
    /\ UNCHANGED offLock
    /\ api.pc = "open"
    /\ LET opened == OpenForWrite(lock[ApiSlave], ApiIno)
       IN  /\ lock' = [lock EXCEPT ![ApiSlave] = opened]
           /\ api' = [api EXCEPT !.pc = "write", !.time = clock,
                                 !.hnd = opened.ino]
    /\ UNCHANGED <<clock, buildDir, last>>

\* lock_content is written, the file closed, acquire_lock returns
ApiAcquireWrite ==
    /\ UNCHANGED offLock
    /\ api.pc = "write"
    /\ lock' = [lock EXCEPT ![ApiSlave] =
                    WriteThrough(@, api.hnd, LockContent(api.project, api.time))]
    /\ last' = [op |-> "acquire", project |-> api.project,
                start |-> api.start, finish |-> clock]
    /\ api' = ApiIdle
    /\ UNCHANGED <<clock, buildDir>>

\* release_lock()
ApiRelease ==
    /\ UNCHANGED offLock
    /\ api.pc = "idle"
    /\ lock' = [lock EXCEPT ![ApiSlave] = RemoveFile(@)]
    /\ last' = [op |-> "release", project |-> <<>>, start |-> clock,
                finish |-> clock]
    /\ UNCHANGED <<clock, buildDir, api>>

LockNext ==
    \/ Tick
    \/ ApiAcquireCall
    \/ ApiAcquireOpen
    \/ ApiAcquireWrite
    \/ ApiRelease

(***************************************************************************)
(* SlaveConnection.exec_command: the poll loop and the remote process      *)
(***************************************************************************)
\* bytes on the wire: "x" an ASCII character, NL, and the two bytes
\* "c1" "c2" of one two-byte UTF-8 character
Bytes == {"x", NL, "c1", "c2"}

IsUtf8(s) ==
    \A i \in 1..Len(s) :
        /\ s[i] = "c1" => (i < Len(s) /\ s[i + 1] = "c2")
        /\ s[i] = "c2" => (i > 1 /\ s[i - 1] = "c1")

\* what a remote process may write to a stream: UTF-8 text of at most n bytes
Outputs(n) == {s \in UNION {[1..k -> Bytes] : k \in 0..n} : IsUtf8(s)}

\* bytes.decode("utf-8", errors="replace"): "e" is the two-byte character,
\* "?" is U+FFFD
RECURSIVE Decode(_)
Decode(b) ==
    IF b = <<>> THEN <<>>
    ELSE IF b[1] = "c1" /\ Len(b) >= 2 /\ b[2] = "c2"
         THEN <<"e">> \o Decode(SubSeq(b, 3, Len(b)))
    ELSE IF b[1] \in {"c1", "c2"}
         THEN <<"?">> \o Decode(Tail(b))
    ELSE <<b[1]>> \o Decode(Tail(b))

Min(a, b) == IF a <= b THEN a ELSE b
AllButLast(q) == SubSeq(q, 1, Len(q) - 1)
LastOf(q) == q[Len(q)]

\* buffer += chunk; while "\n" in buffer: line, buffer = buffer.split("\n", 1)
LinesOf(buffer, chunk) == AllButLast(SplitNL(buffer \o Decode(chunk)))
RestOf(buffer, chunk) == LastOf(SplitNL(buffer \o Decode(chunk)))

\* a faulty variant of Flushed: the callback is called with an empty buffer too
FlushedAlways(calls, buffer) == Append(calls, buffer)

\* if buffer and callback: callback(buffer)
Flushed(calls, buffer) == IF buffer # <<>> THEN Append(calls, buffer) ELSE calls

ExecParked ==
    /\ fullOut = <<>> /\ fullErr = <<>>
    /\ procOut = <<>> /\ procErr = <<>>
    /\ exited = FALSE /\ procStatus = 0
    /\ chanOut = <<>> /\ chanErr = <<>>
    /\ xpc = "off"
    /\ stdout_buffer = <<>> /\ stderr_buffer = <<>>
    /\ outCalls = <<>> /\ errCalls = <<>>
    /\ exit_status = 0
    /\ timeout = 0 /\ iterRead = FALSE

\* the timeout run_build passes on: config.project.timeout
Timeouts == 1..MaxTimeout

\* client.exec_command has started a process that will write at most
\* nOut bytes to stdout and nErr bytes to stderr; the loop is entered
LoopEntered(nOut, nErr) ==
    /\ PipeInit /\ LockParked
    /\ DetectParked /\ InfoParked /\ FindParked /\ SessParked
    /\ LaterParked
    /\ fullOut \in Outputs(nOut)
    /\ fullErr \in Outputs(nErr)
    /\ procOut = fullOut /\ procErr = fullErr
    /\ exited = FALSE /\ procStatus = 0
    /\ chanOut = <<>> /\ chanErr = <<>>
    /\ xpc = "poll_out"
    /\ stdout_buffer = <<>> /\ stderr_buffer = <<>>
    /\ outCalls = <<>> /\ errCalls = <<>>
    /\ exit_status = 0
    /\ iterRead = FALSE

ExecInit == LoopEntered(MaxOutBytes, MaxErrBytes) /\ timeout = MaxTimeout

\* the calls whose return is examined: any timeout, short outputs
FairInit == LoopEntered(MaxLiveBytes, MaxLiveBytes) /\ timeout \in Timeouts

\* the process writes to stdout and the bytes reach the channel
ProcWriteOut ==
    /\ UNCHANGED offExec
    /\ UNCHANGED <<timeout, iterRead>>
    /\ xpc # "off" /\ ~exited
    /\ \E k \in 1..Len(procOut) :
        /\ chanOut' = chanOut \o SubSeq(procOut, 1, k)
        /\ procOut' = SubSeq(procOut, k + 1, Len(procOut))
    /\ UNCHANGED <<fullOut, fullErr, procErr, exited, procStatus, chanErr, xpc,
                   stdout_buffer, stderr_buffer, outCalls, errCalls, exit_status>>

\* the process writes to stderr and the bytes reach the channel
ProcWriteErr ==
    /\ UNCHANGED offExec
    /\ UNCHANGED <<timeout, iterRead>>
    /\ xpc # "off" /\ ~exited
    /\ \E k \in 1..Len(procErr) :
        /\ chanErr' = chanErr \o SubSeq(procErr, 1, k)
        /\ procErr' = SubSeq(procErr, k + 1, Len(procErr))
    /\ UNCHANGED <<fullOut, fullErr, procOut, exited, procStatus, chanOut, xpc,
                   stdout_buffer, stderr_buffer, outCalls, errCalls, exit_status>>

\* the process ends; SSH delivers its exit status after all it wrote
ProcExit ==
    /\ UNCHANGED offExec
    /\ UNCHANGED <<timeout, iterRead>>
    /\ xpc # "off" /\ ~exited
    /\ procOut = <<>> /\ procErr = <<>>
    /\ exited' = TRUE
    /\ \E st \in ExitCodes : procStatus' = st
    /\ UNCHANGED <<fullOut, fullErr, procOut, procErr, chanOut, chanErr, xpc,
                   stdout_buffer, stderr_buffer, outCalls, errCalls, exit_status>>

\* if stdout_channel.recv_ready(): one recv(1024), complete lines delivered
PollStdout ==
    /\ UNCHANGED offExec
    /\ UNCHANGED timeout
    /\ iterRead' = (chanOut # <<>>)
    /\ xpc = "poll_out"
    /\ xpc' = "poll_err"
    /\ IF chanOut # <<>>
       THEN LET n == Min(RecvSize, Len(chanOut))
                chunk == SubSeq(chanOut, 1, n)
            IN  /\ chanOut' = SubSeq(chanOut, n + 1, Len(chanOut))
                /\ outCalls' = outCalls \o LinesOf(stdout_buffer, chunk)
                /\ stdout_buffer' = RestOf(stdout_buffer, chunk)
       ELSE UNCHANGED <<chanOut, outCalls, stdout_buffer>>
    /\ UNCHANGED <<fullOut, fullErr, procOut, procErr, exited, procStatus,
                   chanErr, stderr_buffer, errCalls, exit_status>>

\* if stdout_channel.recv_stderr_ready(): one recv_stderr(1024)
PollStderr ==
    /\ UNCHANGED offExec
    /\ UNCHANGED timeout
    /\ iterRead' = (iterRead \/ chanErr # <<>>)
    /\ xpc = "poll_err"
    /\ xpc' = "poll_exit"
    /\ IF chanErr # <<>>
       THEN LET n == Min(RecvSize, Len(chanErr))
                chunk == SubSeq(chanErr, 1, n)
            IN  /\ chanErr' = SubSeq(chanErr, n + 1, Len(chanErr))
                /\ errCalls' = errCalls \o LinesOf(stderr_buffer, chunk)
                /\ stderr_buffer' = RestOf(stderr_buffer, chunk)
       ELSE UNCHANGED <<chanErr, errCalls, stderr_buffer>>
    /\ UNCHANGED <<fullOut, fullErr, procOut, procErr, exited, procStatus,
                   chanOut, stdout_buffer, outCalls, exit_status>>

\* a faulty variant of PollExit: recv_exit_status() is called without
\* exit_status_ready(), and gives 0 when no status has arrived
PollExitBlind ==
    /\ UNCHANGED offExec
    /\ UNCHANGED <<timeout, iterRead>>
    /\ xpc = "poll_exit"
    /\ exit_status' = procStatus
    /\ xpc' = "flush"
    /\ UNCHANGED <<fullOut, fullErr, procOut, procErr, exited, procStatus,
                   chanOut, chanErr, stdout_buffer, stderr_buffer,
                   outCalls, errCalls>>

\* if stdout_channel.exit_status_ready(): leave the loop, else sleep
PollExit ==
    /\ UNCHANGED offExec
    /\ UNCHANGED <<timeout, iterRead>>
    /\ xpc = "poll_exit"
    /\ IF exited
       THEN /\ exit_status' = procStatus
            /\ xpc' = "flush"
       ELSE /\ xpc' = "sleep"
            /\ UNCHANGED exit_status
    /\ UNCHANGED <<fullOut, fullErr, procOut, procErr, exited, procStatus,
                   chanOut, chanErr, stdout_buffer, stderr_buffer,
                   outCalls, errCalls>>

\* time.sleep(0.1), then the next iteration
Sleep ==
    /\ UNCHANGED offExec
    /\ UNCHANGED timeout
    /\ iterRead' = FALSE
    /\ xpc = "sleep"
    /\ xpc' = "poll_out"
    /\ UNCHANGED <<fullOut, fullErr, procOut, procErr, exited, procStatus,
                   chanOut, chanErr, stdout_buffer, stderr_buffer,
                   outCalls, errCalls, exit_status>>

\* after the loop: what is left in either buffer is delivered; return
FinalFlush ==
    /\ UNCHANGED offExec
    /\ UNCHANGED <<timeout, iterRead>>
    /\ xpc = "flush"
    /\ xpc' = "returned"
    /\ outCalls' = Flushed(outCalls, stdout_buffer)
    /\ errCalls' = Flushed(errCalls, stderr_buffer)
    /\ UNCHANGED <<fullOut, fullErr, procOut, procErr, exited, procStatus,
                   chanOut, chanErr, stdout_buffer, stderr_buffer, exit_status>>

ExecNext ==
    \/ ProcWriteOut
    \/ ProcWriteErr
    \/ ProcExit
    \/ PollStdout
    \/ PollStderr
    \/ PollExit
    \/ Sleep
    \/ FinalFlush

(***************************************************************************)
(* One call of detect_build_command on a project root                      *)
(***************************************************************************)
\* the call: detected is what the function returns for the files present
Detect ==
    /\ UNCHANGED offDetect
    /\ detected = "unset"
    /\ detected' = detect_build_command(present)
    /\ UNCHANGED present

DetectInit ==
    /\ PipeInit /\ LockParked /\ ExecParked
    /\ InfoParked /\ FindParked /\ SessParked
    /\ LaterParked
    /\ present \in SUBSET Markers
    /\ detected = "unset"

DetectNext == Detect

(***************************************************************************)
(* One call of get_lock_info on a lock file of any content                 *)
(***************************************************************************)
\* characters of a lock file: a letter, a digit, the newline
TextChars == {"a", "1", NL}

\* contents of the lock file: every text of at most MaxTextLen characters
LockTexts == UNION {[1..n -> TextChars] : n \in 0..MaxTextLen}

\* the call: info is what get_lock_info returns or raises on the file
ReadLockInfo ==
    /\ UNCHANGED offInfo
    /\ info = NoInfo
    /\ info' = GetLockInfo(lock[ApiSlave])

InfoInit ==
    /\ clock = 0 /\ RunsIdle /\ LockParked /\ ExecParked
    /\ DetectParked /\ FindParked /\ SessParked
    /\ LaterParked
    /\ buildDir = [w \in Slaves |-> w = ApiSlave]
    /\ \E file \in {NoFile} \cup {FileOf(t, ApiIno) : t \in LockTexts} :
            lock = [w \in Slaves |-> IF w = ApiSlave THEN file ELSE NoFile]
    /\ info = NoInfo

InfoNext == ReadLockInfo

(***************************************************************************)
(* find_available_slave over a list of slaves                              *)
(***************************************************************************)
\* the list given to find_available_slave, by position
Workers == 1..NumWorkers

\* lock files a probe may find on a slave: none, an empty one, a record,
\* and a file whose second line is no number
ProbedFiles ==
    {NoFile,
     FileOf(<<>>, ApiIno),
     FileOf(LockContent(<<"a">>, 0), ApiIno),
     FileOf(<<"a", NL, "a", NL>>, ApiIno)}

\* a slave as a probe finds it: whether connect() succeeds, and its lock file
WorkerStates == [reachable : BOOLEAN, file : ProbedFiles]

\* check_slave_available: available, not available, or the ValueError that
\* get_lock_info lets through (only SlaveConnectionError is caught)
CheckSlaveAvailable(w) ==
    IF ~w.reachable THEN "unavailable"
    ELSE IF IsBusyOn(w.file)
         THEN IF GetLockInfo(w.file).kind = "error" THEN "raised"
              ELSE "unavailable"
         ELSE "available"

\* one pass of the for loop: probe slaves[i]
FindProbe ==
    /\ UNCHANGED offFind
    /\ scan.pc = "loop"
    /\ scan.i <= NumWorkers
    /\ LET outcome == CheckSlaveAvailable(farm[scan.i])
           probed == Append(scan.probed, scan.i)
       IN  scan' =
             CASE outcome = "available" ->
                    [pc |-> "returned", i |-> scan.i, probed |-> probed,
                     found |-> scan.i]
               [] outcome = "raised" ->
                    [pc |-> "raised", i |-> scan.i, probed |-> probed,
                     found |-> 0]
               [] OTHER ->
                    [pc |-> "loop", i |-> scan.i + 1, probed |-> probed,
                     found |-> 0]
    /\ UNCHANGED farm

\* the list is exhausted: return None
FindNone ==
    /\ UNCHANGED offFind
    /\ scan.pc = "loop"
    /\ scan.i > NumWorkers
    /\ scan' = [scan EXCEPT !.pc = "returned", !.found = 0]
    /\ UNCHANGED farm

FindInit ==
    /\ PipeInit /\ LockParked /\ ExecParked
    /\ DetectParked /\ InfoParked /\ SessParked
    /\ LaterParked
    /\ farm \in [Workers -> WorkerStates]
    /\ scan = [pc |-> "loop", i |-> 1, probed |-> <<>>, found |-> 0]

FindNext == FindProbe \/ FindNone

(***************************************************************************)
(* SlaveConnection: connect and disconnect called on session objects       *)
(***************************************************************************)
\* the handles of a session, and whether the call on them raised
Handles(c, f) == [client |-> c, sftp |-> f, raised |-> FALSE]

\* a faulty variant of CloseSftp: close() is called on self.sftp without looking at it
CloseSftpUnguarded(h) ==
    IF h.sftp THEN [h EXCEPT !.sftp = FALSE] ELSE [h EXCEPT !.raised = TRUE]

\* if self.sftp: self.sftp.close(); self.sftp = None
CloseSftp(h) ==
    IF h.sftp THEN [h EXCEPT !.sftp = FALSE] ELSE h

\* if self.client: self.client.close(); self.client = None
CloseClient(h) ==
    IF h.raised THEN h
    ELSE IF h.client # "none" THEN [h EXCEPT !.client = "none"] ELSE h

\* disconnect: the side-channel first, then the transport
DisconnectOf(h) == CloseClient(CloseSftp(h))

\* connect() on session s: it returns, or raises SlaveConnectionError
SessConnect(s) ==
    /\ UNCHANGED offSess
    /\ sess[s].calls < MaxCalls
    /\ \E outcome \in {"ok", "no_transport", "no_sftp"} :
        /\ client' = [client EXCEPT ![s] =
                        IF outcome = "no_transport" THEN "unconnected" ELSE "open"]
        /\ sftp' = [sftp EXCEPT ![s] = (outcome = "ok")]
        /\ sess' = [sess EXCEPT ![s] =
                        [calls |-> @.calls + 1,
                         last |-> IF outcome = "ok" THEN "connect"
                                  ELSE "connect_failed",
                         raised |-> outcome # "ok"]]

\* disconnect() on session s
SessDisconnect(s) ==
    /\ UNCHANGED offSess
    /\ sess[s].calls < MaxCalls
    /\ LET after == DisconnectOf(Handles(client[s], sftp[s]))
       IN  /\ client' = [client EXCEPT ![s] = after.client]
           /\ sftp' = [sftp EXCEPT ![s] = after.sftp]
           /\ sess' = [sess EXCEPT ![s] =
                           [calls |-> @.calls + 1,
                            last |-> "disconnect",
                            raised |-> after.raised]]

SessInit ==
    /\ PipeInit /\ LockParked /\ ExecParked
    /\ DetectParked /\ InfoParked /\ FindParked
    /\ LaterParked
    /\ sess = [s \in Runs |-> NewSession]

SessNext == \E s \in Runs : SessConnect(s) \/ SessDisconnect(s)

\* a statement of exec_command, from the while loop to the return
LoopStep == PollStdout \/ PollStderr \/ PollExit \/ Sleep \/ FinalFlush

(***************************************************************************)
(* connect: the credentials handed to client.connect                       *)
(***************************************************************************)
CONNECTION_TIMEOUT == 10

\* bool(v) of an Optional[str]
Truthy(v) == v \notin {PyNone, ""}

\* values of SlaveConfig.key, SlaveConfig.password, port and user
KeyPaths == {PyNone, "", "id_rsa"}
Passwords == {PyNone, "", "secret"}
Ports == {22, 2222}
Users == {"ci", "root"}

\* connect_kwargs as connect builds it
ConnectKwargs(cfg, onDisk) ==
    [hostname |-> cfg.host,
     port |-> cfg.port,
     username |-> cfg.user,
     timeout |-> CONNECTION_TIMEOUT,
     key_filename |-> IF Truthy(cfg.key) /\ onDisk THEN cfg.key ELSE Absent,
     password |-> IF ~Truthy(cfg.key) /\ Truthy(cfg.password)
                  THEN cfg.password ELSE Absent]

offCred == <<pipeVars, lockVars, execVars, detectVars, info, findVars, sess,
            stale, collectVars, probeVars>>

\* connect, from connect_kwargs = {...} to the try statement
BuildKwargs ==
    /\ UNCHANGED offCred
    /\ connect_kwargs = NoKwargs
    /\ connect_kwargs' = ConnectKwargs(config, keyOnDisk)
    /\ UNCHANGED <<config, keyOnDisk>>

CredInit ==
    /\ PipeInit /\ LockParked /\ ExecParked
    /\ DetectParked /\ InfoParked /\ FindParked /\ SessParked
    /\ StaleParked /\ CollectParked /\ ProbeParked
    /\ config \in [host : {"h1"}, port : Ports, user : Users,
                   key : KeyPaths, password : Passwords]
    /\ keyOnDisk \in BOOLEAN
    /\ connect_kwargs = NoKwargs

CredNext == BuildKwargs

(***************************************************************************)
(* An orchestrator that stops while it holds the lock; cmd_unlock          *)
(***************************************************************************)
\* run r is between the return of acquire_lock and the end of release_lock
AfterAcquire(r) == pc[r] \in {"presync", "sync", "build", "postbuild", "release"}

offStale == <<lockVars, execVars, detectVars, info, findVars, sess, credVars,
             collectVars, probeVars>>

\* the process running execute_build is killed between the return of
\* acquire_lock and the call of release_lock: no finally clause runs, its
\* connection goes with it, and the lock file on the slave is left behind
Stop(r) ==
    /\ UNCHANGED offStale
    /\ AfterAcquire(r)
    /\ pc' = [pc EXCEPT ![r] = "stopped"]
    /\ client' = [client EXCEPT ![r] = "none"]
    /\ sftp' = [sftp EXCEPT ![r] = FALSE]
    /\ hnd' = [hnd EXCEPT ![r] = 0]
    /\ stale' = IF lock[slave[r]].exists THEN stale \cup {slave[r]} ELSE stale
    /\ UNCHANGED <<clock, buildDir, lock, slave, command, acqTime, preIdx,
                   postIdx, pending, result, hist>>

\* cmd_unlock on slave w, when it returns 0: get_lock_info did not raise
\* and release_lock removed the lock file, if there was one
Unlock(w) ==
    /\ UNCHANGED offStale
    /\ GetLockInfo(lock[w]).kind # "error"
    /\ lock' = [lock EXCEPT ![w] = RemoveFile(@)]
    /\ stale' = stale \ {w}
    /\ UNCHANGED <<clock, buildDir, runVars>>

StaleNext ==
    \/ PipeNext
    \/ \E r \in Runs : Stop(r)
    \/ \E w \in Slaves : Unlock(w)

(***************************************************************************)
(* monitor._collect_all: one _collect_single task per slave                *)
(***************************************************************************)
\* lists of slaves with unique names, as cmd_add keeps them
SlaveLists ==
    {l \in UNION {[1..n -> Workers] : n \in 0..NumWorkers} :
        \A i, j \in 1..Len(l) : l[i] = l[j] => i = j}

\* order = {s.name: i for i, s in enumerate(slaves)}; order.get(name, 0)
OrderOf(list, name) ==
    IF \E i \in 1..Len(list) : list[i] = name
    THEN (CHOOSE i \in 1..Len(list) :
            /\ list[i] = name
            /\ \A j \in 1..Len(list) : list[j] = name => j <= i) - 1
    ELSE 0

\* list.sort is stable: m goes behind every element whose key is not larger
RECURSIVE InsertByOrder(_, _, _)
InsertByOrder(sorted, m, list) ==
    IF sorted = <<>> THEN <<m>>
    ELSE IF OrderOf(list, LastOf(sorted).name) <= OrderOf(list, m.name)
         THEN Append(sorted, m)
         ELSE Append(InsertByOrder(AllButLast(sorted), m, list), LastOf(sorted))

\* a faulty variant of SortByOrder: the results stay in completion order
SortSkipped(rs, list) == rs

\* results.sort(key=lambda m: order.get(m.name, 0))
RECURSIVE SortByOrder(_, _)
SortByOrder(rs, list) ==
    IF rs = <<>> THEN <<>>
    ELSE InsertByOrder(SortByOrder(AllButLast(rs), list), LastOf(rs), list)

offCollect == <<pipeVars, lockVars, execVars, detectVars, info, findVars, sess,
               credVars, stale, probeVars>>

\* metrics = SlaveMetrics(name=slave.name, ...): online is False
NewMetrics(name) == [name |-> name, online |-> FALSE]

\* if not slaves: return []
CollectNothing ==
    /\ UNCHANGED offCollect
    /\ cpc = "start" /\ slaves = <<>>
    /\ collected' = [done |-> TRUE, value |-> <<>>]
    /\ cpc' = "returned"
    /\ UNCHANGED <<slaves, task, yielded, results>>

\* pool.submit(_collect_single, slave, conn_cache) for every slave
Submit ==
    /\ UNCHANGED offCollect
    /\ cpc = "start" /\ slaves # <<>>
    /\ task' = [i \in 1..Len(slaves) |->
                  [done |-> FALSE, metrics |-> NewMetrics(slaves[i])]]
    /\ cpc' = "as_completed"
    /\ UNCHANGED <<slaves, yielded, results, collected>>

\* _collect_single for slaves[i] returns its SlaveMetrics: online, or, when
\* anything in its try block raised, offline with the error
TaskEnds(i) ==
    /\ UNCHANGED offCollect
    /\ cpc = "as_completed"
    /\ ~task[i].done
    /\ \E online \in BOOLEAN :
         task' = [task EXCEPT ![i] = [done |-> TRUE,
                                      metrics |-> [@.metrics EXCEPT !.online = online]]]
    /\ UNCHANGED <<slaves, yielded, results, collected, cpc>>

\* for future in as_completed(futures): results.append(future.result())
Gather(i) ==
    /\ UNCHANGED offCollect
    /\ cpc = "as_completed"
    /\ i \notin yielded
    /\ task[i].done
    /\ yielded' = yielded \cup {i}
    /\ results' = Append(results, task[i].metrics)
    /\ UNCHANGED <<slaves, task, collected, cpc>>

\* every future was yielded: the pool is shut down, the list sorted and returned
SortAndReturn ==
    /\ UNCHANGED offCollect
    /\ cpc = "as_completed"
    /\ yielded = 1..Len(slaves)
    /\ collected' = [done |-> TRUE, value |-> SortByOrder(results, slaves)]
    /\ cpc' = "returned"
    /\ UNCHANGED <<slaves, task, yielded, results>>

CollectInit ==
    /\ PipeInit /\ LockParked /\ ExecParked
    /\ DetectParked /\ InfoParked /\ FindParked /\ SessParked
    /\ CredParked /\ StaleParked /\ ProbeParked
    /\ slaves \in SlaveLists
    /\ task = <<>> /\ yielded = {} /\ results = <<>>
    /\ collected = NotReturned
    /\ cpc = "start"

CollectNext ==
    \/ CollectNothing
    \/ Submit
    \/ \E i \in 1..Len(slaves) : TaskEnds(i) \/ Gather(i)
    \/ SortAndReturn

(***************************************************************************)
(* find_available_slave: the session of each check_slave_available        *)
(***************************************************************************)
\* how SlaveConnection.connect ends on a slave: both calls succeed,
\* client.connect fails, or client.connect succeeds and open_sftp fails
ConnectOutcomes == {"ok", "no_transport", "no_sftp"}

HostStates == [connect : ConnectOutcomes, file : ProbedFiles]

offProbe == <<pipeVars, lockVars, execVars, detectVars, info, findVars, sess,
             credVars, stale, collectVars>>

\* the for loop goes on to the next slave
NextSlave == [pc |-> "connect", i |-> walk.i + 1, outcome |-> "none", found |-> 0]

\* with SlaveConnection(config) as conn: __enter__ calls connect. When it
\* raises SlaveConnectionError the with block is not entered, __exit__ is
\* not called, and check_slave_available returns (False, str(e))
ProbeConnect ==
    /\ UNCHANGED offProbe
    /\ walk.pc = "connect"
    /\ walk.i <= NumWorkers
    /\ LET how == hosts[walk.i].connect
       IN  /\ sessions' = IF how = "no_transport" THEN sessions
                          ELSE sessions \cup {walk.i}
           /\ walk' = IF how = "ok" THEN [walk EXCEPT !.pc = "check"]
                      ELSE NextSlave
    /\ UNCHANGED hosts

\* the body of the with block: is_busy, get_lock_info, the return value
ProbeCheck ==
    /\ UNCHANGED offProbe
    /\ walk.pc = "check"
    /\ walk' = [walk EXCEPT
                  !.pc = "exit",
                  !.outcome = CheckSlaveAvailable(
                                  [reachable |-> TRUE, file |-> hosts[walk.i].file])]
    /\ UNCHANGED <<hosts, sessions>>

\* __exit__ -> disconnect; then the slave is returned, the error goes on,
\* or the loop continues
ProbeExit ==
    /\ UNCHANGED offProbe
    /\ walk.pc = "exit"
    /\ sessions' = sessions \ {walk.i}
    /\ walk' = CASE walk.outcome = "available" ->
                      [walk EXCEPT !.pc = "returned", !.found = walk.i]
                 [] walk.outcome = "raised" -> [walk EXCEPT !.pc = "raised"]
                 [] OTHER -> NextSlave
    /\ UNCHANGED hosts

\* the list is exhausted: return None
ProbeNone ==
    /\ UNCHANGED offProbe
    /\ walk.pc = "connect"
    /\ walk.i > NumWorkers
    /\ walk' = [walk EXCEPT !.pc = "returned"]
    /\ UNCHANGED <<hosts, sessions>>

ProbeInit ==
    /\ PipeInit /\ LockParked /\ ExecParked
    /\ DetectParked /\ InfoParked /\ FindParked /\ SessParked
    /\ CredParked /\ StaleParked /\ CollectParked
    /\ hosts \in [Workers -> HostStates]
    /\ walk = [pc |-> "connect", i |-> 1, outcome |-> "none", found |-> 0]
    /\ sessions = {}

ProbeNext == ProbeConnect \/ ProbeCheck \/ ProbeExit \/ ProbeNone

(***************************************************************************)
(* Specifications                                                          *)
(***************************************************************************)
vars == <<pipeVars, lockVars, execVars, detectVars, info, findVars, sess,
         laterVars>>

\* concurrent runs of execute_build
Init ==
    /\ PipeInit /\ LockParked /\ ExecParked
    /\ DetectParked /\ InfoParked /\ FindParked /\ SessParked
    /\ LaterParked
Next == PipeNext
Spec == Init /\ [][Next]_vars

\* one session calling the lock operations
LockInit ==
    /\ clock \in ClockStarts
    /\ FreshSlaves /\ RunsIdle /\ LockParked /\ ExecParked
    /\ DetectParked /\ InfoParked /\ FindParked /\ SessParked
    /\ LaterParked
LockSpec == LockInit /\ [][LockNext]_vars

\* one exec_command call, as run_build makes it, and its remote process
ExecSpec == ExecInit /\ [][ExecNext]_vars

\* the same call when the thread in exec_command keeps running: a
\* statement of the loop that can be executed is executed. Nothing makes
\* the remote process write or end.
ExecFairSpec == FairInit /\ [][ExecNext]_vars /\ WF_vars(LoopStep)

\* connect and disconnect called in any order on session objects
SessSpec == SessInit /\ [][SessNext]_vars

\* find_available_slave on every list of slaves
FindSpec == FindInit /\ [][FindNext]_vars

\* get_lock_info on every content of the lock file
InfoSpec == InfoInit /\ [][InfoNext]_vars

\* detect_build_command on every set of marker files
DetectSpec == DetectInit /\ [][DetectNext]_vars


\* connect on every SlaveConfig, with the key file there or not
CredSpec == CredInit /\ [][CredNext]_vars

\* concurrent runs of execute_build, any of which may be killed while it
\* holds the lock, and ci-farm unlock
StaleSpec == Init /\ [][StaleNext]_vars

\* _collect_all on every list of slaves, the tasks ending in any order
CollectSpec == CollectInit /\ [][CollectNext]_vars

\* find_available_slave, with the session each probe opens and closes
ProbeSpec == ProbeInit /\ [][ProbeNext]_vars

(***************************************************************************)
(* Properties of the build pipeline                                        *)
(***************************************************************************)
\* run r returns from execute_build in this step
Returns(r) == pc[r] # "done" /\ pc'[r] = "done"

OnSameSlave(r1, r2) == r1 # r2 /\ slave[r1] # "none" /\ slave[r1] = slave[r2]

InSyncOrBuild(r) == pc[r] \in {"sync", "build"}

\* C1: no two different runs are in their sync or build stage on the same
\* slave at the same time.
C1_MutualExclusion ==
    \A r1, r2 \in Runs :
        OnSameSlave(r1, r2) => ~(InSyncOrBuild(r1) /\ InSyncOrBuild(r2))

\* C2: release_lock is never called twice in a run, and a run in which
\* acquire_lock succeeded has called it exactly once when it returns,
\* whichever way the stages after the acquisition ended.
C2_ReleaseExactlyOnce ==
    [][\A r \in Runs :
        /\ hist'[r].release <= 1
        /\ (Returns(r) /\ hist[r].acquired) => hist[r].release = 1]_vars

C2_Witness ==
    \E r \in Runs :
        /\ pc[r] = "disconnect"
        /\ hist[r].acquired
        /\ hist[r].buildRaised
        /\ hist[r].release = 1

\* C3: when a pre-sync hook exits non-zero, the run returns having run no
\* later pre-sync hook, no sync, no build, and exactly one release_lock.
C3_PreSyncFailureAborts ==
    [][\A r \in Runs :
        (Returns(r) /\ hist[r].preFailed # 0) =>
            /\ hist[r].pre = hist[r].preFailed
            /\ hist[r].sync = 0
            /\ hist[r].build = 0
            /\ hist[r].release = 1]_vars

C3_Witness ==
    \E r \in Runs :
        /\ pc[r] = "disconnect"
        /\ hist[r].preFailed = 1
        /\ NumPreSync > 1
        /\ hist[r].release = 1

\* C4: when the sync tool exits non-zero, the run returns 1 having invoked
\* no build and exactly one release_lock.
C4_SyncFailure ==
    [][\A r \in Runs :
        (Returns(r) /\ hist[r].syncFailed) =>
            /\ hist[r].build = 0
            /\ hist[r].release = 1
            /\ result'[r] = 1]_vars

C4_Witness ==
    \E r \in Runs :
        /\ pc[r] = "disconnect"
        /\ hist[r].acquired
        /\ hist[r].syncFailed
        /\ hist[r].release = 1

\* C5: a run whose is_busy reported true returns 1 having called neither
\* acquire_lock nor a pre-sync hook nor the sync tool nor the build.
C5_BusyRejected ==
    [][\A r \in Runs :
        (Returns(r) /\ hist[r].sawBusy) =>
            /\ result'[r] = 1
            /\ hist[r].acquire = 0
            /\ hist[r].pre = 0
            /\ hist[r].sync = 0
            /\ hist[r].build = 0]_vars

\* a run is rejected while another run holds the lock and is building
C5_Witness ==
    \E r1, r2 \in Runs :
        /\ OnSameSlave(r1, r2)
        /\ pc[r1] = "disconnect"
        /\ hist[r1].sawBusy
        /\ pending[r1] = Return(1)
        /\ pc[r2] = "build"


\* C7: acquire_lock is never refused because a lock file exists; when it
\* completes on the file it opened, the one record on the slave is the
\* record of the run that wrote last, whatever was there before, and no
\* other run is disturbed: an earlier holder goes on as a holder.
C7_LastWriterWins ==
    /\ [](\A r \in Runs : pc[r] = "acquire" => ENABLED AcquireOpenOk(r))
    /\ [][\A r \in Runs :
            (/\ pc[r] = "acquire_write"
             /\ hist'[r].acquired
             /\ lock[slave[r]].exists
             /\ lock[slave[r]].ino = hnd[r]) =>
                /\ GetLockInfo(lock'[slave[r]]) =
                      [kind |-> "info", project |-> ProjectOf(r),
                       ts |-> acqTime[r]]
                /\ lock[slave[r]].content = <<>> =>
                      lock'[slave[r]].content =
                          LockContent(ProjectOf(r), acqTime[r])
                /\ AfterAcquire(r)'
                /\ \A q \in Runs \ {r} : pc'[q] = pc[q]]_vars

\* run r1 created the lock file and holds it; run r2 acquired after it
\* and its record is the one on the slave; both are past acquire_lock
C7_Witness ==
    \E r1, r2 \in Runs :
        /\ OnSameSlave(r1, r2)
        /\ ProjectOf(r1) # ProjectOf(r2)
        /\ hist[r1].acquired /\ AfterAcquire(r1)
        /\ hist[r2].acquired /\ AfterAcquire(r2)
        /\ lock[slave[r1]].exists
        /\ lock[slave[r1]].ino = r1
        /\ lock[slave[r1]].content = LockContent(ProjectOf(r2), acqTime[r2])

\* C10 as stated: execute_build returns 0 or 1, nothing else.
C10_ZeroOrOne ==
    \A r \in Runs : pc[r] = "done" => result[r] \in {0, 1}

\* what execute_build returns, from what its stages did
ExpectedResult(r) ==
    IF /\ hist[r].build = 1
       /\ ~hist[r].buildRaised
       /\ ~hist[r].postRaised
       /\ ~hist[r].releaseRaised
    THEN hist[r].buildExit
    ELSE 1

\* C10 (amended): execute_build returns the exit status of the build
\* command (0 when it succeeded, its own non-zero status when it failed)
\* when the build command ran to an exit status and neither a post-build
\* hook nor release_lock raised; it returns 1 in every other case.
C10_ResultAmended ==
    [][\A r \in Runs : Returns(r) => result'[r] = ExpectedResult(r)]_vars

C10_Witness ==
    \E r \in Runs : pc[r] = "done" /\ result[r] \notin {0, 1}


\* C11: when every stage up to sync succeeded and neither a post-build hook
\* nor release_lock raised, execute_build returns the exit status the
\* build's exec_command returned, whatever that status is.
C11_BuildStatusReturned ==
    [][\A r \in Runs :
        (/\ Returns(r)
         /\ hist[r].build = 1
         /\ ~hist[r].buildRaised
         /\ ~hist[r].postRaised
         /\ ~hist[r].releaseRaised) =>
            result'[r] = hist[r].buildExit]_vars

\* a build that exited 2 is about to be returned, the lock released
C11_Witness ==
    \E r \in Runs :
        /\ pc[r] = "disconnect"
        /\ hist[r].pre = NumPreSync
        /\ hist[r].sync = 1
        /\ hist[r].buildExit = 2
        /\ hist[r].release = 1
        /\ ~hist[r].releaseRaised
        /\ pending[r] = Return(2)

\* a post-build hook exited non-zero, or its exec_command raised
HookFailed(r) == hist[r].postFailed \/ hist[r].postRaised

\* execute_build prints a failure of its own accord in the except clause
\* only; of a hook it forwards the lines the hook writes, and no more
ErrorPrinted(r) == pending[r].kind = "raise"

\* C12: when the build exited zero and a post-build hook failed, and
\* release_lock raised nothing, execute_build returns 0 and has printed
\* the failure.
C12_HookFailureReported ==
    [][\A r \in Runs :
        (/\ Returns(r)
         /\ hist[r].build = 1
         /\ hist[r].buildExit = 0
         /\ ~hist[r].buildRaised
         /\ HookFailed(r)
         /\ ~hist[r].releaseRaised) =>
            /\ result'[r] = 0
            /\ ErrorPrinted(r)]_vars

\* C14: a run that has no build command returns 1 from where it found
\* that out: no session was or is opened, it has made no call on the
\* slave, and the step leaves the slaves as they were.
C14_NoCommandFailsFast ==
    [][\A r \in Runs :
        (pc[r] = "command" /\ command[r] = "none" /\ pc'[r] # "command") =>
            /\ pc'[r] = "done"
            /\ result'[r] = 1
            /\ client[r] = "none" /\ client'[r] = "none"
            /\ ~sftp[r] /\ ~sftp'[r]
            /\ hist[r] = NoCalls
            /\ lock' = lock
            /\ buildDir' = buildDir]_vars

\* the slave was found, no command was given, configured or detected
C14_Witness ==
    \E r \in Runs :
        /\ pc[r] = "command"
        /\ slave[r] # "none"
        /\ command[r] = "none"

\* in this step a stage of run r has raised: connect raises in __enter__,
\* or the with block is left by an exception
StageRaised(r) ==
    \/ pc[r] = "connect" /\ pc'[r] # "is_busy" /\ pc'[r] # "connect"
    \/ pc[r] = "disconnect" /\ pending[r].kind = "raise" /\ pc'[r] # "disconnect"

\* C18: when a stage of a run has raised, execute_build returns, and what
\* it returns is not 0; the error does not leave execute_build.
C18_NoFailureEscapes ==
    [][\A r \in Runs :
        StageRaised(r) => (pc'[r] = "done" /\ result'[r] # 0)]_vars

\* release_lock, the last stage before the session is closed, has raised
\* after a build that exited 0
C18_Witness ==
    \E r \in Runs :
        /\ pc[r] = "disconnect"
        /\ hist[r].buildExit = 0
        /\ hist[r].build = 1
        /\ hist[r].releaseRaised
        /\ pending[r] = Raise

\* C19: when execute_build has returned, the session it opened holds no
\* open transport and no open side-channel.
C19_SessionClosed ==
    \A r \in Runs : pc[r] = "done" => (client[r] # "open" /\ ~sftp[r])

\* position of each statement in the stage sequence
StageRanks ==
    [idle |-> 0, command |-> 0, connect |-> 1, is_busy |-> 2, lock_info |-> 2,
     acquire |-> 3, acquire_write |-> 3, presync |-> 4, sync |-> 5,
     build |-> 6, postbuild |-> 7, release |-> 8, disconnect |-> 9,
     done |-> 10, raised |-> 10]

StageRank(p) == StageRanks[p]

Enters(r, stage) == pc[r] # stage /\ pc'[r] = stage

StepOf(r) == pc'[r] # pc[r] \/ hist'[r] # hist[r]

\* C27: the lock file of a slave changes only in a step of a run that is
\* on that slave, so acquire_lock, release_lock and a whole run on one
\* slave leave the lock file of every other slave as it was; and is_busy
\* sends a run to the busy branch only when the lock file of the run's
\* own slave exists.
C27_WorkersIndependent ==
    [][/\ \A w \in Slaves :
            lock'[w] # lock[w] => \E r \in Runs : slave[r] = w /\ StepOf(r)
       /\ \A r \in Runs :
            (~hist[r].sawBusy /\ hist'[r].sawBusy) => IsBusyOn(lock[slave[r]])]_vars

\* two runs hold the locks of two different slaves, each its own record,
\* and neither was sent to the busy branch
C27_Witness ==
    \E r1, r2 \in Runs :
        /\ slave[r1] # "none" /\ slave[r2] # "none" /\ slave[r1] # slave[r2]
        /\ AfterAcquire(r1) /\ hist[r1].acquired /\ ~hist[r1].sawBusy
        /\ AfterAcquire(r2) /\ hist[r2].acquired /\ ~hist[r2].sawBusy
        /\ lock[slave[r1]] = FileOf(LockContent(ProjectOf(r1), acqTime[r1]), r1)
        /\ lock[slave[r2]] = FileOf(LockContent(ProjectOf(r2), acqTime[r2]), r2)

RunningStages == {"presync", "sync", "build", "postbuild"}

\* C29: whenever a run is in its pre-sync, sync, build or post-build stage
\* on a slave, the lock file exists on that slave.
C29_LockedWhileRunning ==
    \A r \in Runs : pc[r] \in RunningStages => IsBusyOn(lock[slave[r]])

\* C30: from the is_busy call that finds the slave busy to its return, a
\* rejected run writes no lock file and removes none: each of its steps
\* leaves the lock file of every slave, content and inode, as it was.
C30_RejectedLeavesLock ==
    [][\A r \in Runs :
        (StepOf(r) /\ (hist[r].sawBusy \/ hist'[r].sawBusy)) => lock' = lock]_vars

\* a rejected run is about to return 1 and the lock file it found, with
\* the record of the run that holds it, is on the slave
C30_Witness ==
    \E r1, r2 \in Runs :
        /\ OnSameSlave(r1, r2)
        /\ pc[r1] = "disconnect"
        /\ hist[r1].sawBusy
        /\ hist[r1].acquire = 0
        /\ pending[r1] = Return(1)
        /\ pc[r2] \in RunningStages
        /\ lock[slave[r1]] = FileOf(LockContent(ProjectOf(r2), acqTime[r2]), r2)



\* C31: when acquire_lock failed after it had created the lock file, the
\* file it created is not on the slave when execute_build returns.
C31_FailedAcquireLeavesNoLock ==
    [][\A r \in Runs :
        (Returns(r) /\ hist[r].acquire = 1 /\ ~hist[r].acquired) =>
            ~(lock'[slave[r]].exists /\ lock'[slave[r]].ino = r)]_vars

\* C32: a run whose connect fails returns 1 in that step: it goes to no
\* is_busy, acquire_lock or release_lock, and no lock file changes.
C32_ConnectFailureTouchesNoLock ==
    [][\A r \in Runs :
        (pc[r] = "connect" /\ pc'[r] # "connect" /\ ~sftp'[r]) =>
            /\ Returns(r)
            /\ result'[r] = 1
            /\ hist[r] = NoCalls
            /\ lock' = lock]_vars

\* a run returned 1 from a connect that opened no transport, while the
\* other run holds the lock of its slave with its own record
C32_Witness ==
    \E r1, r2 \in Runs :
        /\ r1 # r2
        /\ pc[r1] = "done" /\ result[r1] = 1 /\ client[r1] = "unconnected"
        /\ AfterAcquire(r2) /\ hist[r2].acquired
        /\ lock[slave[r2]] = FileOf(LockContent(ProjectOf(r2), acqTime[r2]), r2)

\* C33: when release_lock raises, the lock file stays as it was and
\* execute_build returns 1, also after a build that exited zero.
C33_ReleaseFailureOverrides ==
    [][\A r \in Runs :
        /\ (pc[r] = "release" /\ hist'[r].releaseRaised) => lock' = lock
        /\ (Returns(r) /\ hist[r].releaseRaised) => result'[r] = 1]_vars

\* the build of a run exited zero, its release_lock raised, and its lock
\* file is still on the slave as the run is about to return
C33_Witness ==
    \E r \in Runs :
        /\ pc[r] = "disconnect"
        /\ hist[r].build = 1 /\ hist[r].buildExit = 0 /\ ~hist[r].buildRaised
        /\ hist[r].post = NumPostBuild /\ ~hist[r].postRaised
        /\ hist[r].releaseRaised
        /\ lock[slave[r]] = FileOf(LockContent(ProjectOf(r), acqTime[r]), r)

(***************************************************************************)
(* Properties of the lock operations                                       *)
(***************************************************************************)
\* C6: after a completed acquire_lock(p), with no lock operation since,
\* is_busy is true and get_lock_info returns (p, t) with t between the
\* clock at the start and at the end of the call; after release_lock,
\* is_busy is false.
C6_LockRoundTrip ==
    api.pc = "idle" =>
        /\ last.op = "acquire" =>
              /\ IsBusyOn(lock[ApiSlave])
              /\ GetLockInfo(lock[ApiSlave]).kind = "info"
              /\ GetLockInfo(lock[ApiSlave]).project = last.project
              /\ last.start <= GetLockInfo(lock[ApiSlave]).ts
              /\ GetLockInfo(lock[ApiSlave]).ts <= last.finish
        /\ last.op = "release" => ~IsBusyOn(lock[ApiSlave])


(***************************************************************************)
(* Properties of exec_command                                              *)
(***************************************************************************)
\* the stream consists of newline-terminated lines only
NewlineTerminated(bytes) == bytes = <<>> \/ LastOf(bytes) = NL

\* the lines of a stream of newline-terminated lines
CompleteLines(bytes) == AllButLast(SplitNL(Decode(bytes)))

\* C8: when the process wrote N newline-terminated lines to a stream and
\* exited, the stream's callback has been called with exactly those N
\* lines, in order, by the time exec_command returns.
C8_NoOutputLost ==
    xpc = "returned" =>
        /\ NewlineTerminated(fullOut) => outCalls = CompleteLines(fullOut)
        /\ NewlineTerminated(fullErr) => errCalls = CompleteLines(fullErr)

\* C9: once the exit status is observed, each stream's callback gets one
\* more call, with the unterminated fragment left in that stream's buffer,
\* after all the stream's complete lines, when that fragment is not empty,
\* and no call when it is empty; after that there is no further call.
C9_FinalFlush ==
    [][/\ xpc = "flush" =>
            /\ outCalls' = IF stdout_buffer = <<>> THEN outCalls
                           ELSE outCalls \o <<stdout_buffer>>
            /\ errCalls' = IF stderr_buffer = <<>> THEN errCalls
                           ELSE errCalls \o <<stderr_buffer>>
       /\ xpc = "returned" => UNCHANGED <<outCalls, errCalls>>]_vars

\* stdout: a complete line, then the fragment, flushed last; stderr: its
\* buffer was empty at the exit and its callback got only the one line
C9_Witness ==
    /\ xpc = "returned"
    /\ stdout_buffer # <<>>
    /\ Len(outCalls) = 2
    /\ LastOf(outCalls) = stdout_buffer
    /\ stderr_buffer = <<>>
    /\ Len(errCalls) = 1


\* C22: when a timeout is given and the remote process never signals its
\* exit, exec_command returns to its caller.
C22_TimeoutBoundsCall ==
    (timeout \in Timeouts /\ []~exited) => <>(xpc = "returned")

\* C23: exec_command leaves the loop only when exit_status_ready() was
\* true, and what it returns is the exit status of the process; when the
\* loop keeps running and the process signals its exit, exec_command
\* returns that status.
C23_ReturnsIffExited ==
    /\ [](xpc \in {"flush", "returned"} => (exited /\ exit_status = procStatus))
    /\ [](exited => <>(xpc = "returned" /\ exit_status = procStatus))

\* the call returned the non-zero status of a process that had written
\* to both streams
C23_Witness ==
    /\ xpc = "returned"
    /\ exited
    /\ procStatus # 0
    /\ exit_status = procStatus
    /\ fullOut # <<>> /\ fullErr # <<>>
    /\ chanOut = <<>> /\ chanErr = <<>>

\* C24: the loop goes to time.sleep only in an iteration in which
\* neither recv_ready() nor recv_stderr_ready() was true.
C24_SleepOnlyWhenIdle ==
    [][(xpc = "poll_exit" /\ xpc' = "sleep") => ~iterRead]_vars

(***************************************************************************)
(* Properties of detect_build_command                                      *)
(***************************************************************************)
\* place of a marker in the table
PlaceOf(m) == CHOOSE i \in DOMAIN BUILD_MARKERS : BUILD_MARKERS[i].marker = m

\* C13: what detect_build_command returns is fixed by the set of markers
\* present: nothing when the set is empty, otherwise the command of the
\* present marker that no other present marker precedes in BUILD_MARKERS.
C13_FirstMarkerWins ==
    detected # "unset" =>
        IF present = {}
        THEN detected = "none"
        ELSE \E m \in present :
                /\ \A o \in present : PlaceOf(m) <= PlaceOf(o)
                /\ detected = BUILD_MARKERS[PlaceOf(m)].command

\* Cargo.toml precedes go.mod and build.sh, and its command was returned
C13_Witness ==
    /\ present = {"build.sh", "go.mod", "Cargo.toml"}
    /\ detected = "cargo build --release"


(***************************************************************************)
(* Properties of get_lock_info                                             *)
(***************************************************************************)
\* a record as acquire_lock writes it: a non-empty project name, a newline,
\* a decimal number, and at most a newline after it
WellFormedRecord(text) ==
    LET lines == SplitNL(text)
    IN  /\ Len(lines) \in {2, 3}
        /\ lines[1] # <<>>
        /\ ParseFloat(lines[2]).ok
        /\ Len(lines) = 3 => lines[3] = <<>>

\* C17: get_lock_info raises on no content of the lock file; it returns
\* nothing for a content that is not a well-formed record and a pair only
\* for a well-formed one.
C17_MalformedIsAbsent ==
    info # NoInfo =>
        /\ info.kind # "error"
        /\ info.kind = "info" => WellFormedRecord(lock[ApiSlave].content)


(***************************************************************************)
(* Properties of find_available_slave                                      *)
(***************************************************************************)
\* connect() succeeds on the slave and is_busy() is false
IsAvailable(w) == w.reachable /\ ~IsBusyOn(w.file)

\* C15: find_available_slave ends by returning; it returns the first slave
\* of the list that is reachable and not busy, having probed the slaves up
\* to that one and none after it, and it returns nothing when no slave of
\* the list is reachable and not busy.
C15_FirstAvailable ==
    scan.pc \notin {"off", "loop"} =>
        LET avail == {i \in Workers : IsAvailable(farm[i])}
        IN  /\ scan.pc = "returned"
            /\ IF avail = {}
               THEN scan.found = 0
               ELSE /\ scan.found \in avail
                    /\ \A i \in avail : scan.found <= i
                    /\ scan.probed = [i \in 1..scan.found |-> i]


\* C34: check_slave_available never raises, whatever state the slave is
\* in, so find_available_slave ends by returning and a slave that is not
\* available never keeps the slaves after it from being probed.
C34_ProbeNeverRaises ==
    /\ scan.pc # "raised"
    /\ scan.pc = "returned" =>
         \A i \in Workers :
            (\A j \in 1..i : ~IsAvailable(farm[j])) =>
                \E k \in 1..Len(scan.probed) : scan.probed[k] = i

(***************************************************************************)
(* Properties of disconnect                                                *)
(***************************************************************************)
\* this step is a disconnect() on session s
Disconnects(s) == sess'[s].calls = sess[s].calls + 1 /\ sess'[s].last = "disconnect"

\* C16: disconnect does not raise, whether the session was never
\* connected, its connect failed, it is connected or it was disconnected
\* before; after it the session holds neither client nor sftp; a
\* disconnect that follows a disconnect changes neither handle.
C16_DisconnectIdempotent ==
    [][\A s \in Runs :
        Disconnects(s) =>
            /\ ~sess'[s].raised
            /\ client'[s] = "none"
            /\ ~sftp'[s]
            /\ sess[s].last = "disconnect" =>
                  (client'[s] = client[s] /\ sftp'[s] = sftp[s])]_vars

\* session 1 was disconnected twice after a connect that failed with the
\* transport open; session 2 was disconnected without ever being connected
C16_Witness ==
    /\ sess[1] = [calls |-> 3, last |-> "disconnect", raised |-> FALSE]
    /\ client[1] = "none" /\ ~sftp[1]
    /\ sess[2] = [calls |-> 1, last |-> "disconnect", raised |-> FALSE]
    /\ client[2] = "none" /\ ~sftp[2]


(***************************************************************************)
(* Properties of connect                                                   *)
(***************************************************************************)
\* C25: the key file is handed to client.connect when a key is configured
\* and its file exists; in every other case, a configured key whose file
\* is missing included, the password is handed over when one is configured.
C25_CredentialChoice ==
    connect_kwargs # NoKwargs =>
        LET keyUsable == Truthy(config.key) /\ keyOnDisk
        IN  /\ keyUsable => connect_kwargs.key_filename = config.key
            /\ (~keyUsable /\ Truthy(config.password)) =>
                   connect_kwargs.password = config.password


(***************************************************************************)
(* Properties of a lock left behind                                        *)
(***************************************************************************)
\* C21: once an orchestrator has stopped between acquire_lock and
\* release_lock on a slave, and until an unlock of that slave has run,
\* the lock file stays on the slave and no run passes the busy check on
\* that slave.
C21_StaleLockStays ==
    [][\A w \in stale \cap stale' :
        /\ lock[w].exists => lock'[w].exists
        /\ \A r \in Runs :
             (slave[r] = w /\ pc[r] = "is_busy") => pc'[r] # "acquire"]_vars


(***************************************************************************)
(* Properties of the monitor                                               *)
(***************************************************************************)
\* C28: what _collect_all returns has one result per slave of the list, in
\* the order of the list: the i-th result is the one the task of slaves[i]
\* returned, online or not, in whatever order the tasks ended.
C28_OneResultPerWorker ==
    collected.done =>
        /\ Len(collected.value) = Len(slaves)
        /\ \A i \in 1..Len(slaves) :
             /\ collected.value[i].name = slaves[i]
             /\ collected.value[i] = task[i].metrics

\* a full list was collected, the names not in ascending order, the tasks
\* ended in the reverse order of the list, some online and some not
C28_Witness ==
    /\ collected.done
    /\ Len(slaves) = NumWorkers
    /\ slaves[1] > slaves[2]
    /\ \A i \in 1..NumWorkers : results[i].name = slaves[NumWorkers + 1 - i]
    /\ \E i, j \in 1..NumWorkers : task[i].metrics.online /\ ~task[j].metrics.online


(***************************************************************************)
(* Properties of the sessions of find_available_slave                      *)
(***************************************************************************)
\* C26: at most one session of the scan is open at any time, and when the
\* connection attempt to a slave starts, or the scan has ended, no session
\* opened for an earlier slave is open.
C26_ProbingSequential ==
    /\ Cardinality(sessions) <= 1
    /\ walk.pc \in {"connect", "returned", "raised"} => sessions = {}

=============================================================================
